---- MODULE Spec2Model ----
(***************************************************************************)
(* Model of the translation endpoint of rn-expo-ai-translate:              *)
(* src/app/api/translate+api.ts, the async handler POST(req).              *)
(*                                                                         *)
(* A JavaScript string is the sequence of its UTF-16 code units; Utf16     *)
(* gives the sequence for text written in ASCII.  The fixed names and      *)
(* messages the program never computes on (model, mimeType, error) stay    *)
(* TLA+ strings.  A JavaScript value is a record [kind, str, num, items].  *)
(* One invocation of POST runs from Receive to pc = "done"; it is          *)
(* suspended once, at the await of ai.models.generateContent.              *)
(***************************************************************************)
EXTENDS Integers, Sequences, FiniteSets, TLC

VARIABLES
    pc,          \* position of the invocation: idle, received, awaiting, settled, done
    req,         \* the request being handled
    mode,        \* "none", "image" or "text": which branch issued the model call
    modelCalls,  \* arguments of the generateContent calls issued by this invocation
    outcome,     \* how the pending generateContent call ended
    responses,   \* the Response objects this invocation returned
    errorLog,    \* what console.error was given by this invocation
    flights,     \* the invocations of POST that run side by side, one record each
    inputText,   \* screen state: the text of the input field
    selectedLang, \* screen state: targetLang, the language chosen
    userId,      \* screen: user?.id of the signed-in user, undefined until loaded
    loading,     \* screen state: a translation is under way
    signOuts,    \* profile screen: the confirmations open and the calls of signOut() pending
    inFlight,    \* the invocations of handleTranslate that have not returned
    completed    \* the invocation of handleTranslate that returned last: its trace, what
                 \* it wrote, and the value of loading it read at line 104

serverVars == <<pc, req, mode, modelCalls, outcome, responses, errorLog>>
screenVars == <<inputText, selectedLang, userId, loading, signOuts, inFlight, completed>>
vars == <<serverVars, flights, screenVars>>

----------------------------------------------------------------------------
(* Bounds of the model                                                     *)

MaxLen == 2      \* longest targetLang / text string of a request
MaxPieces == 3   \* an image string is a concatenation of at most this many pieces
MaxOut == 2      \* longest text a model response carries
NumInvocations == 2  \* invocations of POST that may be in flight together
MaxSignOuts == 2 \* confirmations open plus calls of signOut() pending

----------------------------------------------------------------------------
(* JavaScript strings and values                                           *)

\* runs of ASCII characters with the code of the first of each; the double
\* quote, the backslash and the backquote occur in no literal used here
AsciiRuns ==
    << [first |-> 32, chars |-> " !"],
       [first |-> 35, chars |-> "#$%&'()*+,-./0123456789:;<=>?@ABCDEFGHIJKLMNOPQRSTUVWXYZ["],
       [first |-> 93, chars |-> "]^_"],
       [first |-> 97, chars |-> "abcdefghijklmnopqrstuvwxyz{|}~"] >>

\* the code unit of each of these characters, and of the line feed
CodeUnitOf ==
    [c \in {"\n"} \cup UNION {{SubSeq(AsciiRuns[k].chars, i, i) :
                                    i \in 1..Len(AsciiRuns[k].chars)} :
                                k \in 1..Len(AsciiRuns)} |->
        IF c = "\n" THEN 10
        ELSE LET k == CHOOSE k \in 1..Len(AsciiRuns) :
                          \E i \in 1..Len(AsciiRuns[k].chars) : SubSeq(AsciiRuns[k].chars, i, i) = c
                 i == CHOOSE i \in 1..Len(AsciiRuns[k].chars) : SubSeq(AsciiRuns[k].chars, i, i) = c
             IN  AsciiRuns[k].first + i - 1]

\* the code units of a string literal of the source written in ASCII
Utf16(s) == [i \in 1..Len(s) |-> CodeUnitOf[SubSeq(s, i, i)]]

(* The values req.json() can give a field: undefined (the field is        *)
(* absent), null, a boolean, a number, a string, an array, an object.      *)
(* The numbers are the integers of TLC, whose magnitude is below 2^31; the *)
(* arrays hold strings; the object is {}.                                  *)

Undefined == [kind |-> "undefined", str |-> <<>>, num |-> 0, items |-> <<>>]
Null == [kind |-> "null", str |-> <<>>, num |-> 0, items |-> <<>>]
Str(s) == [kind |-> "string", str |-> s, num |-> 0, items |-> <<>>]
Num(n) == [kind |-> "number", str |-> <<>>, num |-> n, items |-> <<>>]
Bool(b) == [kind |-> "boolean", str |-> <<>>, num |-> IF b THEN 1 ELSE 0, items |-> <<>>]
Arr(items) == [kind |-> "array", str |-> <<>>, num |-> 0, items |-> items]
Obj == [kind |-> "object", str |-> <<>>, num |-> 0, items |-> <<>>]

\* ToBoolean, as applied by `!x` and `if (x)`
Truthy(v) ==
    CASE v.kind = "undefined" -> FALSE
      [] v.kind = "null" -> FALSE
      [] v.kind = "boolean" -> v.num = 1
      [] v.kind = "string" -> v.str # <<>>
      [] v.kind = "number" -> v.num # 0
      [] v.kind = "array" -> TRUE
      [] v.kind = "object" -> TRUE

Digit(d) == <<48 + d>>

\* the decimal digits of a natural number
RECURSIVE DigitsOf(_)
DigitsOf(n) == IF n < 10 THEN Digit(n) ELSE DigitsOf(n \div 10) \o Digit(n % 10)

\* Number::toString of an integer of magnitude below 10^21: the sign, then
\* the digits; -0 has been read as 0
NumToStr(n) == IF n < 0 THEN Utf16("-") \o DigitsOf(0 - n) ELSE DigitsOf(n)

\* Array.prototype.join(",") of the strings items[i], items[i+1], ...
RECURSIVE JoinFrom(_, _)
JoinFrom(items, i) ==
    IF i > Len(items) THEN <<>>
    ELSE IF i = Len(items) THEN items[i]
    ELSE items[i] \o Utf16(",") \o JoinFrom(items, i + 1)

\* ToString, as applied to a ${...} substitution of a template literal
TemplateStr(v) ==
    CASE v.kind = "undefined" -> Utf16("undefined")
      [] v.kind = "null" -> Utf16("null")
      [] v.kind = "boolean" -> IF v.num = 1 THEN Utf16("true") ELSE Utf16("false")
      [] v.kind = "string" -> v.str
      [] v.kind = "number" -> NumToStr(v.num)
      [] v.kind = "array" -> JoinFrom(v.items, 1)
      [] v.kind = "object" -> Utf16("[object Object]")

----------------------------------------------------------------------------
(* String.prototype.trim / includes / split                                *)

\* the white space and the line terminators String.prototype.trim removes, as
\* code units: tab, line feed, vertical tab, form feed, carriage return,
\* space, no-break space, U+1680, U+2000 to U+200A, U+2028, U+2029, U+202F,
\* U+205F, U+3000 and U+FEFF
WhiteSpace ==
    {9, 10, 11, 12, 13, 32, 160, 5760} \cup (8192..8202)
    \cup {8232, 8233, 8239, 8287, 12288, 65279}

IsWhiteSpaceAt(s, i) == s[i] \in WhiteSpace

\* String.prototype.trim: s without its leading and its trailing white space
Trim(s) ==
    IF \A i \in 1..Len(s) : IsWhiteSpaceAt(s, i) THEN <<>>
    ELSE LET leading ==
                 CHOOSE k \in 0..(Len(s) - 1) :
                     ~IsWhiteSpaceAt(s, k + 1) /\ \A j \in 1..k : IsWhiteSpaceAt(s, j)
             trailing ==
                 CHOOSE k \in 0..(Len(s) - 1) :
                     /\ ~IsWhiteSpaceAt(s, Len(s) - k)
                     /\ \A j \in (Len(s) - k + 1)..Len(s) : IsWhiteSpaceAt(s, j)
         IN  SubSeq(s, leading + 1, Len(s) - trailing)

OccursAt(s, sep, i) == SubSeq(s, i, i + Len(sep) - 1) = sep

\* position of the first occurrence of sep in s at or after from, 0 when there is none
IndexOfFrom(s, sep, from) ==
    IF \E i \in from..(Len(s) - Len(sep) + 1) : OccursAt(s, sep, i)
    THEN CHOOSE i \in from..(Len(s) - Len(sep) + 1) :
             OccursAt(s, sep, i) /\ \A j \in from..(i - 1) : ~OccursAt(s, sep, j)
    ELSE 0

\* String.prototype.includes
Includes(s, sep) == IndexOfFrom(s, sep, 1) # 0

\* the segments of s from position from on, cut at the occurrences of sep
RECURSIVE SplitFrom(_, _, _)
SplitFrom(s, sep, from) ==
    LET i == IndexOfFrom(s, sep, from)
    IN  IF i = 0
        THEN <<SubSeq(s, from, Len(s))>>
        ELSE <<SubSeq(s, from, i - 1)>> \o SplitFrom(s, sep, i + Len(sep))

\* String.prototype.split for a non-empty separator
Split(s, sep) == SplitFrom(s, sep, 1)

Base64Marker == Utf16("base64,")

\* lines 22-24, for a string; JavaScript's [1] is the second segment
cleanBase64Image(image) ==
    IF Includes(image, Base64Marker)
    THEN Split(image, Base64Marker)[2]
    ELSE image

\* Array.prototype.includes, on an array of strings
ArrayIncludes(items, s) == \E i \in 1..Len(items) : items[i] = s

\* lines 22-23, for any truthy image: a string has includes and split; an
\* array has includes and no split; the other values have no includes
ImageBranch(image) ==
    CASE image.kind = "string" -> "image"
      [] image.kind = "array" ->
            IF ArrayIncludes(image.items, Base64Marker) THEN "splitThrows" ELSE "image"
      [] OTHER -> "includesThrows"

\* lines 22-24, for an image of the branch "image": the value of cleanBase64Image
ImageData(image) ==
    IF image.kind = "string" THEN Str(cleanBase64Image(image.str)) ELSE image

----------------------------------------------------------------------------
(* Prompts                                                                 *)

ImageTemplateHead ==
    Utf16("\nYou are a professional translation engine.\n\nTask:\n")
    \o Utf16("1. Read all text in the image.\n")
    \o Utf16("2. Translate it into the target language.\n")
    \o Utf16("3. Keep original meaning.\n")
    \o Utf16("4. Do NOT add explanations.\n")
    \o Utf16("5. Output ONLY the translated text.\n\nTarget language:\n")

ImageTemplateTail == Utf16("\n      ")

\* lines 26-38
ImagePrompt(targetLang) ==
    Trim(ImageTemplateHead \o TemplateStr(targetLang) \o ImageTemplateTail)

TextTemplateHead ==
    Utf16("\nYou are a professional translation engine.\n\nTask:\n")
    \o Utf16("- Translate the given text into the target language.\n")
    \o Utf16("- Keep original meaning.\n")
    \o Utf16("- Do NOT add explanations.\n")
    \o Utf16("- Output ONLY the translated text.\n\nTarget language:\n")

TextTemplateMid == Utf16("\n\nText:\n")

TextTemplateTail == Utf16("\n    ")

\* variant of TextPrompt: the source text is trimmed before it is embedded
TextPromptTrimsText(targetLang, text) ==
    Trim(TextTemplateHead \o TemplateStr(targetLang) \o TextTemplateMid
         \o Trim(TemplateStr(text)) \o TextTemplateTail)

\* lines 76-90
TextPrompt(targetLang, text) ==
    Trim(TextTemplateHead \o TemplateStr(targetLang) \o TextTemplateMid
         \o TemplateStr(text) \o TextTemplateTail)

----------------------------------------------------------------------------
(* The two shapes of the generateContent call                              *)

ModelName == "gemini-2.5-flash"

\* lines 40-56: contents is a list of one user-role message with two parts
ImageCall(prompt, data) ==
    [model |-> ModelName, contents |-> "messages", nMessages |-> 1, role |-> "user",
     nParts |-> 2, text |-> prompt, mimeType |-> "image/jpeg", data |-> data]

\* lines 92-95: contents is the prompt string itself
TextCall(prompt) ==
    [model |-> ModelName, contents |-> "string", nMessages |-> 0, role |-> "",
     nParts |-> 0, text |-> prompt, mimeType |-> "", data |-> Undefined]

----------------------------------------------------------------------------
(* Responses                                                               *)

\* Response.json(body, {status}); the status defaults to 200
JsonResponse(body, status) == [status |-> status, body |-> body]

MissingTargetLang == JsonResponse([error |-> "Missing targetLang"], 400)
MissingText == JsonResponse([error |-> "Missing text"], 400)
TranslationFailed == JsonResponse([error |-> "Translation failed"], 500)
Translated(t) == JsonResponse([text |-> t], 200)

\* variant of translatedText: the trim is forgotten
translatedTextNoTrim(response) ==
    IF response.text.kind = "string" THEN Str(response.text.str) ELSE Undefined

\* lines 58 and 97: response.text?.trim()
translatedText(response) ==
    IF response.text.kind = "string" THEN Str(Trim(response.text.str)) ELSE Undefined

----------------------------------------------------------------------------
(* Inputs                                                                  *)

RECURSIVE StrsUpTo(_, _)
StrsUpTo(alphabet, n) ==
    IF n = 0 THEN {<<>>}
    ELSE LET shorter == StrsUpTo(alphabet, n - 1)
         IN  shorter \cup {s \o c : s \in shorter, c \in alphabet}

RECURSIVE Concats(_, _)
Concats(pieces, n) ==
    IF n = 0 THEN {<<>>}
    ELSE LET shorter == Concats(pieces, n - 1)
         IN  shorter \cup {s \o p : s \in shorter, p \in pieces}

FieldStrings == StrsUpTo({Utf16("e"), Utf16(" ")}, MaxLen)
FieldValues ==
    {Undefined, Null, Num(0), Num(-7), Bool(TRUE), Arr(<<Utf16("e")>>)}
    \cup {Str(s) : s \in FieldStrings}

ImageStrings ==
    Concats({Utf16("A"), Base64Marker}, MaxPieces)
    \cup {Utf16("base64"), Utf16("data:image/png;base64,AAAA")}
ImageValues ==
    {Undefined, Null, Obj, Arr(<<>>), Arr(<<Base64Marker>>)}
    \cup {Str(s) : s \in ImageStrings}

\* body: "malformed" is not JSON, "null" is the JSON value null, "object" a JSON object
\* requests without an image: every text with every targetLang
TextRequests ==
    [body : {"object"}, text : FieldValues, targetLang : FieldValues,
     image : {v \in ImageValues : ~Truthy(v)}]
\* requests with an image: every image with every targetLang and a few texts
ImageModeTexts == {Undefined, Num(0), Str(<<>>), Str(Utf16(" ")), Str(Utf16("ee"))}
ImageRequests ==
    [body : {"object"}, text : ImageModeTexts, targetLang : FieldValues,
     image : {v \in ImageValues : Truthy(v)}]
ObjectRequests == TextRequests \cup ImageRequests
BadRequests ==
    [body : {"malformed", "null"}, text : {Undefined}, targetLang : {Undefined},
     image : {Undefined}]
Requests == ObjectRequests \cup BadRequests

NoRequest == [body |-> "none", text |-> Undefined, targetLang |-> Undefined,
              image |-> Undefined]

ModelTexts ==
    {Undefined, Str(<<5760>>), Str(<<65279>> \o Utf16("H") \o <<160>>)}
    \cup {Str(s) : s \in StrsUpTo({Utf16("H"), Utf16(" ")}, MaxOut)}
NoOutcome == [kind |-> "none", text |-> Undefined]
Resolved(t) == [kind |-> "response", text |-> t]
Rejected == [kind |-> "throw", text |-> Undefined]

----------------------------------------------------------------------------
(* The handler                                                             *)

\* variant of Route: the text check is made first
RouteTextFirst(r) ==
    IF r.body = "malformed" THEN "jsonThrows"
    ELSE IF r.body = "null" THEN "destructureThrows"
    ELSE IF ~Truthy(r.text) /\ ~Truthy(r.image) THEN "missingText"
    ELSE IF ~Truthy(r.targetLang) THEN "missingTargetLang"
    ELSE IF Truthy(r.image)
         THEN ImageBranch(r.image)
    ELSE "text"

\* variant of Route: the text check is missing
RouteNoTextCheck(r) ==
    IF r.body = "malformed" THEN "jsonThrows"
    ELSE IF r.body = "null" THEN "destructureThrows"
    ELSE IF ~Truthy(r.targetLang) THEN "missingTargetLang"
    ELSE IF Truthy(r.image)
         THEN ImageBranch(r.image)
    ELSE "text"

\* variant of Route: a present text takes priority over the image
RouteTextWins(r) ==
    IF r.body = "malformed" THEN "jsonThrows"
    ELSE IF r.body = "null" THEN "destructureThrows"
    ELSE IF ~Truthy(r.targetLang) THEN "missingTargetLang"
    ELSE IF Truthy(r.text) THEN "text"
    ELSE IF Truthy(r.image)
         THEN ImageBranch(r.image)
    ELSE "missingText"

\* variant of Route: a text of white space only counts as missing
RouteBlankTextMissing(r) ==
    IF r.body = "malformed" THEN "jsonThrows"
    ELSE IF r.body = "null" THEN "destructureThrows"
    ELSE IF ~Truthy(r.targetLang) THEN "missingTargetLang"
    ELSE IF Truthy(r.image)
         THEN ImageBranch(r.image)
    ELSE IF ~Truthy(r.text) \/ (r.text.kind = "string" /\ Trim(r.text.str) = <<>>)
         THEN "missingText"
    ELSE "text"

\* lines 9-74: the branch the handler takes before its first model call
Route(r) ==
    IF r.body = "malformed" THEN "jsonThrows"
    ELSE IF r.body = "null" THEN "destructureThrows"
    ELSE IF ~Truthy(r.targetLang) THEN "missingTargetLang"
    ELSE IF Truthy(r.image)
         THEN ImageBranch(r.image)
    ELSE IF ~Truthy(r.text) THEN "missingText"
    ELSE "text"

\* the invocations of POST that run side by side
Invocations == 1..NumInvocations

\* the locals of an invocation of POST that has not begun
IdleFlight ==
    [pc |-> "idle", req |-> NoRequest, mode |-> "none", modelCalls |-> <<>>,
     outcome |-> NoOutcome, responses |-> <<>>, errorLog |-> <<>>]

Init ==
    /\ pc = "idle"
    /\ req = NoRequest
    /\ mode = "none"
    /\ modelCalls = <<>>
    /\ outcome = NoOutcome
    /\ responses = <<>>
    /\ errorLog = <<>>
    /\ flights = [i \in Invocations |-> IdleFlight]
    /\ inputText = <<>>
    /\ selectedLang = Utf16("zh-CN")
    /\ userId = Undefined
    /\ loading = FALSE
    /\ signOuts = [dialogs |-> 0, pending |-> 0]
    /\ inFlight = <<>>
    /\ completed = [trace |-> <<>>, written |-> <<>>, sawLoading |-> FALSE]

\* the router invokes POST(req): a fresh invocation
Receive ==
    /\ pc = "idle"
    /\ \E r \in Requests : req' = r
    /\ pc' = "received"
    /\ mode' = "none"
    /\ modelCalls' = <<>>
    /\ outcome' = NoOutcome
    /\ responses' = <<>>
    /\ errorLog' = <<>>
    /\ UNCHANGED <<flights, screenVars>>

\* variant of Catch: the message of the caught error is sent to the client
CatchLeaksMessage(error) ==
    /\ errorLog' = Append(errorLog, error)
    /\ responses' = Append(responses, JsonResponse([error |-> error], 500))
    /\ pc' = "done"

\* lines 104-107: the catch clause logs and answers 500
Catch(error) ==
    /\ errorLog' = Append(errorLog, error)
    /\ responses' = Append(responses, TranslationFailed)
    /\ pc' = "done"

\* line 9 throws: req.json() rejects, or null does not destructure
ParseThrows ==
    /\ pc = "received"
    /\ Route(req) \in {"jsonThrows", "destructureThrows"}
    /\ Catch(IF Route(req) = "jsonThrows" THEN "SyntaxError" ELSE "TypeError")
    /\ UNCHANGED <<req, mode, modelCalls, outcome>>
    /\ UNCHANGED <<flights, screenVars>>

\* lines 11-13
RejectMissingTargetLang ==
    /\ pc = "received"
    /\ Route(req) = "missingTargetLang"
    /\ responses' = Append(responses, MissingTargetLang)
    /\ pc' = "done"
    /\ UNCHANGED <<req, mode, modelCalls, outcome, errorLog>>
    /\ UNCHANGED <<flights, screenVars>>

\* line 22 throws: image is truthy and has no includes method; line 23
\* throws: image is an array that includes the marker, and has no split
ImageThrows ==
    /\ pc = "received"
    /\ Route(req) \in {"includesThrows", "splitThrows"}
    /\ Catch("TypeError")
    /\ UNCHANGED <<req, mode, modelCalls, outcome>>
    /\ UNCHANGED <<flights, screenVars>>

\* lines 20-56: the image branch up to the await
IssueImageCall ==
    /\ pc = "received"
    /\ Route(req) = "image"
    /\ modelCalls' = Append(modelCalls,
           ImageCall(ImagePrompt(req.targetLang), ImageData(req.image)))
    /\ mode' = "image"
    /\ pc' = "awaiting"
    /\ UNCHANGED <<req, outcome, responses, errorLog>>
    /\ UNCHANGED <<flights, screenVars>>

\* lines 72-74
RejectMissingText ==
    /\ pc = "received"
    /\ Route(req) = "missingText"
    /\ responses' = Append(responses, MissingText)
    /\ pc' = "done"
    /\ UNCHANGED <<req, mode, modelCalls, outcome, errorLog>>
    /\ UNCHANGED <<flights, screenVars>>

\* lines 76-95: the text branch up to the await
IssueTextCall ==
    /\ pc = "received"
    /\ Route(req) = "text"
    /\ modelCalls' = Append(modelCalls, TextCall(TextPrompt(req.targetLang, req.text)))
    /\ mode' = "text"
    /\ pc' = "awaiting"
    /\ UNCHANGED <<req, outcome, responses, errorLog>>
    /\ UNCHANGED <<flights, screenVars>>

\* the provider answers: the promise of generateContent resolves
ModelResolves ==
    /\ pc = "awaiting"
    /\ \E t \in ModelTexts : outcome' = Resolved(t)
    /\ pc' = "settled"
    /\ UNCHANGED <<req, mode, modelCalls, responses, errorLog>>
    /\ UNCHANGED <<flights, screenVars>>

\* the provider or the transport fails: the promise rejects
ModelRejects ==
    /\ pc = "awaiting"
    /\ outcome' = Rejected
    /\ pc' = "settled"
    /\ UNCHANGED <<req, mode, modelCalls, responses, errorLog>>
    /\ UNCHANGED <<flights, screenVars>>

\* variant of Resume: the check for an empty result is missing
ResumeEmptyOk ==
    /\ pc = "settled"
    /\ IF outcome.kind = "throw"
       THEN Catch("ProviderError")
       ELSE /\ responses' = Append(responses, Translated(translatedText(outcome).str))
            /\ pc' = "done"
            /\ UNCHANGED errorLog
    /\ UNCHANGED <<req, mode, modelCalls, outcome>>
    /\ UNCHANGED <<flights, screenVars>>

\* variant of Resume: a failed or empty call is tried once more
ResumeRetries ==
    /\ pc = "settled"
    /\ IF (outcome.kind = "throw" \/ ~Truthy(translatedText(outcome))) /\ Len(modelCalls) < 2
       THEN /\ modelCalls' = Append(modelCalls, modelCalls[1])
            /\ outcome' = NoOutcome
            /\ pc' = "awaiting"
            /\ UNCHANGED <<responses, errorLog>>
       ELSE /\ IF outcome.kind = "throw"
               THEN Catch("ProviderError")
               ELSE IF ~Truthy(translatedText(outcome))
                    THEN Catch("Empty translation result")
                    ELSE /\ responses' = Append(responses,
                                                Translated(translatedText(outcome).str))
                         /\ pc' = "done"
                         /\ UNCHANGED errorLog
            /\ UNCHANGED <<modelCalls, outcome>>
    /\ UNCHANGED <<req, mode>>
    /\ UNCHANGED <<flights, screenVars>>

\* variant of Resume: the await is outside the try, a rejection escapes the handler
ResumeUncaught ==
    /\ pc = "settled"
    /\ IF outcome.kind = "throw"
       THEN /\ pc' = "crashed"
            /\ UNCHANGED <<responses, errorLog>>
       ELSE IF ~Truthy(translatedText(outcome))
            THEN Catch(IF mode = "image" THEN "Empty image translation result"
                       ELSE "Empty translation result")
            ELSE /\ responses' = Append(responses, Translated(translatedText(outcome).str))
                 /\ pc' = "done"
                 /\ UNCHANGED errorLog
    /\ UNCHANGED <<req, mode, modelCalls, outcome>>
    /\ UNCHANGED <<flights, screenVars>>

\* lines 58-64 and 97-103, with the catch of lines 104-107
Resume ==
    /\ pc = "settled"
    /\ IF outcome.kind = "throw"
       THEN Catch("ProviderError")
       ELSE IF ~Truthy(translatedText(outcome))
            THEN Catch(IF mode = "image" THEN "Empty image translation result"
                       ELSE "Empty translation result")
            ELSE /\ responses' = Append(responses, Translated(translatedText(outcome).str))
                 /\ pc' = "done"
                 /\ UNCHANGED errorLog
    /\ UNCHANGED <<req, mode, modelCalls, outcome>>
    /\ UNCHANGED <<flights, screenVars>>

\* the returned Response has been sent; the invocation's frame is gone
Finish ==
    /\ pc = "done"
    /\ pc' = "idle"
    /\ req' = NoRequest
    /\ mode' = "none"
    /\ modelCalls' = <<>>
    /\ outcome' = NoOutcome
    /\ responses' = <<>>
    /\ errorLog' = <<>>
    /\ UNCHANGED <<flights, screenVars>>

Next ==
    \/ Receive
    \/ ParseThrows
    \/ RejectMissingTargetLang
    \/ ImageThrows
    \/ IssueImageCall
    \/ RejectMissingText
    \/ IssueTextCall
    \/ ModelResolves
    \/ ModelRejects
    \/ Resume
    \/ Finish

Spec == Init /\ [][Next]_vars

\* the steps of the handler itself, as opposed to those of its environment
HandlerStep ==
    \/ ParseThrows
    \/ RejectMissingTargetLang
    \/ ImageThrows
    \/ IssueImageCall
    \/ RejectMissingText
    \/ IssueTextCall
    \/ Resume

\* the event loop runs every continuation that is ready, and the pending call to
\* the provider ends, by resolving or by rejecting
FairSpec ==
    /\ Spec
    /\ WF_vars(HandlerStep)
    /\ WF_vars(ModelResolves \/ ModelRejects)

----------------------------------------------------------------------------
(* Several invocations of POST in flight together.  The event loop runs    *)
(* one synchronous stretch of one invocation at a time; each invocation    *)
(* has its own req, prompt, response and translatedText (const locals of   *)
(* lines 9-103), and the module has no variable besides the handle ai.     *)

\* line 3: the client handle shared by all invocations; POST only calls it
ai == [apiKey |-> "GEMINI_API_KEY"]

ConcRequests ==
    [body : {"object"}, text : {Undefined, Str(Utf16("e"))},
     targetLang : {Undefined, Str(Utf16("e")), Str(Utf16("e "))},
     image : {Undefined, Str(Utf16("Abase64,A"))}]
    \cup {[body |-> "malformed", text |-> Undefined, targetLang |-> Undefined,
           image |-> Undefined]}

ConcOutcomes == {Rejected, Resolved(Str(Utf16(" "))), Resolved(Str(Utf16("H ")))}

\* lines 104-107, on the locals f of one invocation
Caught(f, error) ==
    [f EXCEPT !.errorLog = Append(@, error),
              !.responses = Append(@, TranslationFailed),
              !.pc = "done"]

\* lines 9-56 and 72-95: from the call of POST to its return or its model call
Entered(f) ==
    CASE Route(f.req) = "jsonThrows" -> Caught(f, "SyntaxError")
      [] Route(f.req) \in {"destructureThrows", "includesThrows", "splitThrows"} ->
            Caught(f, "TypeError")
      [] Route(f.req) = "missingTargetLang" ->
            [f EXCEPT !.responses = Append(@, MissingTargetLang), !.pc = "done"]
      [] Route(f.req) = "missingText" ->
            [f EXCEPT !.responses = Append(@, MissingText), !.pc = "done"]
      [] Route(f.req) = "image" ->
            [f EXCEPT !.modelCalls =
                          Append(@, ImageCall(ImagePrompt(f.req.targetLang),
                                              ImageData(f.req.image))),
                      !.mode = "image",
                      !.pc = "awaiting"]
      [] Route(f.req) = "text" ->
            [f EXCEPT !.modelCalls =
                          Append(@, TextCall(TextPrompt(f.req.targetLang, f.req.text))),
                      !.mode = "text",
                      !.pc = "awaiting"]

\* lines 58-64 and 97-103 with the catch of lines 104-107
Resumed(f) ==
    IF f.outcome.kind = "throw"
    THEN Caught(f, "ProviderError")
    ELSE IF ~Truthy(translatedText(f.outcome))
         THEN Caught(f, IF f.mode = "image" THEN "Empty image translation result"
                        ELSE "Empty translation result")
         ELSE [f EXCEPT !.responses = Append(@, Translated(translatedText(f.outcome).str)),
                        !.pc = "done"]

ConcReceive(i) ==
    /\ flights[i].pc = "idle"
    /\ \E r \in ConcRequests :
          flights' = [flights EXCEPT ![i] = [IdleFlight EXCEPT !.pc = "received", !.req = r]]
    /\ UNCHANGED <<serverVars, screenVars>>

ConcEnter(i) ==
    /\ flights[i].pc = "received"
    /\ flights' = [flights EXCEPT ![i] = Entered(flights[i])]
    /\ UNCHANGED <<serverVars, screenVars>>

\* the model call of invocation i ends
ConcSettle(i) ==
    /\ flights[i].pc = "awaiting"
    /\ \E o \in ConcOutcomes :
          flights' = [flights EXCEPT ![i] = [@ EXCEPT !.outcome = o, !.pc = "settled"]]
    /\ UNCHANGED <<serverVars, screenVars>>

\* variant of ConcResume: response is a variable of the module, so an invocation
\* reads what the call that ended last, its own or not, has left there
ConcResumeSharedResponse(i) ==
    /\ flights[i].pc = "settled"
    /\ \E j \in Invocations :
          /\ flights[j].pc = "settled"
          /\ flights' = [flights EXCEPT
                            ![i] = [Resumed([flights[i] EXCEPT !.outcome = flights[j].outcome])
                                       EXCEPT !.outcome = flights[i].outcome]]
    /\ UNCHANGED <<serverVars, screenVars>>

ConcResume(i) ==
    /\ flights[i].pc = "settled"
    /\ flights' = [flights EXCEPT ![i] = Resumed(flights[i])]
    /\ UNCHANGED <<serverVars, screenVars>>

ConcFinish(i) ==
    /\ flights[i].pc = "done"
    /\ flights' = [flights EXCEPT ![i] = IdleFlight]
    /\ UNCHANGED <<serverVars, screenVars>>

ConcNext ==
    \E i \in Invocations :
        \/ ConcReceive(i)
        \/ ConcEnter(i)
        \/ ConcSettle(i)
        \/ ConcResume(i)
        \/ ConcFinish(i)

ConcSpec == Init /\ [][ConcNext]_vars

----------------------------------------------------------------------------
(* The translate screen: src/app/(app)/(tabs)/index.tsx, handleTranslate.  *)
(* A state update made in a press handler is rendered before the next      *)
(* event is delivered, so a handler reads the state as it is.  An          *)
(* invocation of handleTranslate is suspended three times: at the await of *)
(* fetch, of res.json() and of addDoc.  The signed-in user comes from      *)
(* useUser(); src/app/(app)/(tabs)/profile.tsx signs the user out, after a *)
(* confirmation.                                                           *)

\* two of LANGUAGES, lines 46-56
Languages == {Utf16("zh-CN"), Utf16("en")}

\* what the user may have typed into the input field
TypedTexts == {<<>>, <<12288>>, Utf16("e"), <<12288>> \o Utf16("ee ")}

\* the texts a 200 response of POST can carry
ServerTexts ==
    {translatedText(Resolved(t)).str :
        t \in {u \in ModelTexts : Truthy(translatedText(Resolved(u)))}}

\* the responses POST returns
ServerResponses ==
    {MissingTargetLang, MissingText, TranslationFailed} \cup {Translated(t) : t \in ServerTexts}

NoFetch == [kind |-> "none", status |-> 0, data |-> [error |-> ""]]
\* fetch resolved with the response r, whose body is JSON for data
Fetched(r) == [kind |-> "response", status |-> r.status, data |-> r.body]
\* fetch rejected
FetchFailed == [kind |-> "reject", status |-> 0, data |-> [error |-> "Network request failed"]]

\* line 122: data.text
DataText(data) == IF "text" \in DOMAIN data THEN Str(data.text) ELSE Undefined

\* lines 128-134: the record given to addDoc
HistoryRecord(f) ==
    [userId |-> f.userId, sourceText |-> f.sourceText, translatedText |-> f.translatedText,
     targetLang |-> f.targetLang, createdAt |-> "new Date()"]

RemoveAt(seq, k) == SubSeq(seq, 1, k - 1) \o SubSeq(seq, k + 1, Len(seq))

\* variant of CanTranslate: loading is not looked at
CanTranslateIgnoresLoading == Trim(inputText) # <<>> /\ Truthy(userId)

\* lines 104-105: neither of the two early returns is taken
CanTranslate == ~(Trim(inputText) = <<>> \/ loading) /\ Truthy(userId)

\* lines 68-69: useUser() delivers the user who has signed in
UserLoads ==
    /\ ~Truthy(userId)
    /\ userId' = Str(Utf16("user_1"))
    /\ UNCHANGED <<serverVars, flights, signOuts, inputText, selectedLang, loading,
                   inFlight, completed>>

\* profile.tsx lines 59-71 and 202-206: every press of the button calls
\* handleSignOut, which opens one more confirmation and returns
handleSignOut ==
    /\ signOuts.dialogs + signOuts.pending < MaxSignOuts
    /\ signOuts' = [signOuts EXCEPT !.dialogs = @ + 1]
    /\ UNCHANGED <<serverVars, flights, inputText, selectedLang, userId, loading, inFlight,
                   completed>>

\* profile.tsx lines 61-64: Cancel has no onPress, the confirmation closes
CancelSignOut ==
    /\ signOuts.dialogs > 0
    /\ signOuts' = [signOuts EXCEPT !.dialogs = @ - 1]
    /\ UNCHANGED <<serverVars, flights, inputText, selectedLang, userId, loading, inFlight,
                   completed>>

\* profile.tsx lines 65-69: onPress calls signOut(); nobody awaits its promise
ConfirmSignOut ==
    /\ signOuts.dialogs > 0
    /\ signOuts' = [signOuts EXCEPT !.dialogs = @ - 1, !.pending = @ + 1]
    /\ UNCHANGED <<serverVars, flights, inputText, selectedLang, userId, loading, inFlight,
                   completed>>

\* a call of signOut() has finished: useUser() has no user any more
UserSignsOut ==
    /\ signOuts.pending > 0
    /\ signOuts' = [signOuts EXCEPT !.pending = @ - 1]
    /\ userId' = Undefined
    /\ UNCHANGED <<serverVars, flights, inputText, selectedLang, loading, inFlight, completed>>

\* a call of signOut() has failed: its promise rejects unobserved, the user stays
SignOutFails ==
    /\ signOuts.pending > 0
    /\ signOuts' = [signOuts EXCEPT !.pending = @ - 1]
    /\ UNCHANGED <<serverVars, flights, inputText, selectedLang, userId, loading, inFlight,
                   completed>>

\* line 196: onChangeText={setInputText}
TypeText ==
    /\ \E t \in TypedTexts : t # inputText /\ inputText' = t
    /\ UNCHANGED <<serverVars, flights, signOuts, selectedLang, userId, loading,
                   inFlight, completed>>

\* lines 244-249: setTargetLang(l.code)
SelectLang ==
    /\ \E l \in Languages : l # selectedLang /\ selectedLang' = l
    /\ UNCHANGED <<serverVars, flights, signOuts, inputText, userId, loading,
                   inFlight, completed>>

\* a press that starts nothing: the button is disabled while loading (line
\* 203), or handleTranslate returns at once (lines 104-105)
HandleTranslateReturns ==
    /\ ~CanTranslate
    /\ completed' = [trace |-> <<"return">>, written |-> <<>>, sawLoading |-> loading]
    /\ UNCHANGED <<serverVars, flights, signOuts, inputText, selectedLang, userId, loading,
                   inFlight>>

\* lines 104-119: handleTranslate up to the await of fetch
HandleTranslateStarts ==
    /\ CanTranslate
    /\ loading' = TRUE
    /\ inFlight' = Append(inFlight,
           [pc |-> "fetching", userId |-> userId.str, sourceText |-> Trim(inputText),
            targetLang |-> selectedLang, fetched |-> NoFetch, parsed |-> "no",
            translatedText |-> Undefined, stored |-> "no", trace |-> <<"fetch">>, written |-> <<>>])
    /\ UNCHANGED <<serverVars, flights, signOuts, inputText, selectedLang, userId,
                   completed>>

\* the promise of fetch settles: the endpoint has answered, or the request failed
FetchSettles ==
    /\ \E k \in 1..Len(inFlight) :
          /\ inFlight[k].pc = "fetching"
          /\ \E r \in {Fetched(x) : x \in ServerResponses} \cup {FetchFailed} :
                inFlight' = [inFlight EXCEPT ![k] = [@ EXCEPT !.fetched = r, !.pc = "responded"]]
    /\ UNCHANGED <<serverVars, flights, signOuts, inputText, selectedLang, userId, loading,
                   completed>>

\* the promise of res.json() settles: the body has been read as JSON, or it could not be
JsonSettles ==
    /\ \E k \in 1..Len(inFlight) :
          /\ inFlight[k].pc = "parsing"
          /\ \E p \in {"yes", "failed"} :
                inFlight' = [inFlight EXCEPT ![k] = [@ EXCEPT !.parsed = p, !.pc = "fetched"]]
    /\ UNCHANGED <<serverVars, flights, signOuts, inputText, selectedLang, userId, loading,
                   completed>>

\* lines 137-142: catch, alert, then finally: the invocation f returns
Failed(k, f) ==
    /\ completed' = [trace |-> Append(f.trace, "alert"), written |-> f.written,
                     sawLoading |-> FALSE]
    /\ inFlight' = RemoveAt(inFlight, k)
    /\ loading' = FALSE
    /\ UNCHANGED inputText

\* lines 112-121: from the result of fetch to the await of res.json(), or the catch
ReadBody ==
    /\ \E k \in 1..Len(inFlight) :
          LET f == inFlight[k]
          IN  /\ f.pc = "responded"
              /\ IF f.fetched.kind = "reject"
                 THEN Failed(k, f)
                 ELSE /\ inFlight' = [inFlight EXCEPT ![k] = [f EXCEPT !.pc = "parsing"]]
                      /\ UNCHANGED <<inputText, loading, completed>>
    /\ UNCHANGED <<serverVars, flights, signOuts, selectedLang, userId>>

\* variant of AfterFetch: the check of lines 124-126 is missing
AfterFetchNoTextCheck ==
    /\ \E k \in 1..Len(inFlight) :
          LET f == inFlight[k]
          IN  /\ f.pc = "fetched"
              /\ IF f.parsed = "failed"
                 THEN Failed(k, f)
                 ELSE /\ inFlight' = [inFlight EXCEPT ![k] =
                             [f EXCEPT !.translatedText = DataText(f.fetched.data),
                                       !.trace = f.trace \o <<"text", "addDoc">>,
                                       !.pc = "storing"]]
                      /\ UNCHANGED <<inputText, loading, completed>>
    /\ UNCHANGED <<serverVars, flights, signOuts, selectedLang, userId>>

\* lines 121-134: from the result of res.json() to the await of addDoc, or the catch
AfterFetch ==
    /\ \E k \in 1..Len(inFlight) :
          LET f == inFlight[k]
          IN  /\ f.pc = "fetched"
              /\ IF f.parsed = "failed" \/ ~Truthy(DataText(f.fetched.data))
                 THEN Failed(k, f)
                 ELSE /\ inFlight' = [inFlight EXCEPT ![k] =
                             [f EXCEPT !.translatedText = DataText(f.fetched.data),
                                       !.trace = f.trace \o <<"text", "addDoc">>,
                                       !.pc = "storing"]]
                      /\ UNCHANGED <<inputText, loading, completed>>
    /\ UNCHANGED <<serverVars, flights, signOuts, selectedLang, userId>>

\* the store takes the record, or refuses it
StoreSettles ==
    /\ \E k \in 1..Len(inFlight) :
          /\ inFlight[k].pc = "storing"
          /\ \/ inFlight' = [inFlight EXCEPT ![k] =
                    [@ EXCEPT !.stored = "yes",
                              !.written = Append(@, HistoryRecord(inFlight[k])),
                              !.trace = Append(@, "written"),
                              !.pc = "stored"]]
             \/ inFlight' = [inFlight EXCEPT ![k] = [@ EXCEPT !.stored = "failed", !.pc = "stored"]]
    /\ UNCHANGED <<serverVars, flights, signOuts, inputText, selectedLang, userId, loading,
                   completed>>

\* lines 128-142: from the result of addDoc to the return
AfterStore ==
    /\ \E k \in 1..Len(inFlight) :
          LET f == inFlight[k]
          IN  /\ f.pc = "stored"
              /\ IF f.stored = "failed"
                 THEN Failed(k, f)
                 ELSE /\ inputText' = <<>>
                      /\ completed' = [trace |-> Append(f.trace, "cleared"),
                                       written |-> f.written, sawLoading |-> FALSE]
                      /\ inFlight' = RemoveAt(inFlight, k)
                      /\ loading' = FALSE
    /\ UNCHANGED <<serverVars, flights, signOuts, selectedLang, userId>>

ScreenNext ==
    \/ UserLoads
    \/ handleSignOut
    \/ CancelSignOut
    \/ ConfirmSignOut
    \/ UserSignsOut
    \/ SignOutFails
    \/ TypeText
    \/ SelectLang
    \/ HandleTranslateReturns
    \/ HandleTranslateStarts
    \/ FetchSettles
    \/ ReadBody
    \/ JsonSettles
    \/ AfterFetch
    \/ StoreSettles
    \/ AfterStore

ScreenSpec == Init /\ [][ScreenNext]_vars

----------------------------------------------------------------------------
(* Vocabulary of the properties                                            *)

IsBlank(s) == \A i \in 1..Len(s) : IsWhiteSpaceAt(s, i)
StartsWith(s, prefix) == Len(prefix) <= Len(s) /\ SubSeq(s, 1, Len(prefix)) = prefix
EndsWith(s, suffix) ==
    Len(suffix) <= Len(s) /\ SubSeq(s, Len(s) - Len(suffix) + 1, Len(s)) = suffix

Parsed == req.body = "object"
HasTargetLang == Parsed /\ Truthy(req.targetLang)

\* the request r, by its fields alone, reaches the model call of the named branch
HasRoute(r, branch) ==
    /\ r.body = "object"
    /\ Truthy(r.targetLang)
    /\ IF Truthy(r.image)
       THEN branch = "image" /\ ImageBranch(r.image) = "image"
       ELSE branch = "text" /\ Truthy(r.text)

----------------------------------------------------------------------------
(* C1: a request whose body parses and whose targetLang is missing or      *)
(* empty is answered 400 {error: "Missing targetLang"} whatever its text   *)
(* and image are, and no model call is issued for it.                      *)
C1_MissingTargetLang ==
    (Parsed /\ ~Truthy(req.targetLang)) =>
        /\ modelCalls = <<>>
        /\ pc \in {"received", "done"}
        /\ pc = "done" => responses = <<[status |-> 400,
                                         body |-> [error |-> "Missing targetLang"]]>>

C1_Witness ==
    /\ pc = "done"
    /\ Parsed
    /\ req.targetLang = Str(<<>>)
    /\ req.text = Undefined
    /\ req.image = Str(Utf16("Abase64,A"))
    /\ responses = <<MissingTargetLang>>
    /\ modelCalls = <<>>

(* C2: with targetLang present, no image, and text missing or empty, the   *)
(* answer is 400 {error: "Missing text"} and no model call is issued.      *)
C2_MissingText ==
    (HasTargetLang /\ ~Truthy(req.image) /\ ~Truthy(req.text)) =>
        /\ modelCalls = <<>>
        /\ pc \in {"received", "done"}
        /\ pc = "done" => responses = <<[status |-> 400,
                                         body |-> [error |-> "Missing text"]]>>

C2_Witness ==
    /\ pc = "done"
    /\ req.targetLang = Str(Utf16("e"))
    /\ req.image = Undefined
    /\ req.text = Str(<<>>)
    /\ responses = <<MissingText>>
    /\ modelCalls = <<>>

(* C3: with targetLang, image and text all present the handler is in image *)
(* mode: no call of the text-only shape is ever issued, and when the       *)
(* image branch does not throw exactly one call is issued, of the          *)
(* multimodal shape (one user message, two parts, the image declared       *)
(* image/jpeg), whose prompt is the image prompt of targetLang alone.      *)
C3_ImageMode ==
    (HasTargetLang /\ Truthy(req.image) /\ Truthy(req.text)) =>
        /\ mode # "text"
        /\ \A i \in 1..Len(modelCalls) : modelCalls[i].contents # "string"
        /\ (ImageBranch(req.image) = "image" /\ pc \in {"awaiting", "settled", "done"}) =>
              /\ mode = "image"
              /\ Len(modelCalls) = 1
              /\ modelCalls[1].contents = "messages"
              /\ modelCalls[1].nMessages = 1
              /\ modelCalls[1].role = "user"
              /\ modelCalls[1].nParts = 2
              /\ modelCalls[1].mimeType = "image/jpeg"
              /\ modelCalls[1].text = ImagePrompt(req.targetLang)

C3_Witness ==
    /\ pc = "awaiting"
    /\ req.targetLang = Str(Utf16("e"))
    /\ req.text = Str(Utf16("ee"))
    /\ req.image = Str(Utf16("Abase64,A"))
    /\ mode = "image"
    /\ Len(modelCalls) = 1
    /\ modelCalls[1].mimeType = "image/jpeg"

(* C4: in text mode and in image mode alike, a model result whose text is  *)
(* absent, empty or made of whitespace only is answered 500                *)
(* {error: "Translation failed"}.                                          *)
C4_EmptyResult ==
    (/\ pc = "done"
     /\ mode \in {"text", "image"}
     /\ outcome.kind = "response"
     /\ (outcome.text.kind # "string" \/ IsBlank(outcome.text.str))) =>
        responses = <<[status |-> 500, body |-> [error |-> "Translation failed"]]>>

C4_Witness ==
    /\ pc = "done"
    /\ mode = "image"
    /\ outcome = Resolved(Str(Utf16("  ")))
    /\ responses = <<TranslationFailed>>
    /\ errorLog = <<"Empty image translation result">>

(* C5, as stated: the body is not JSON, the body does not destructure, the *)
(* image is not a string, or the model call throws: each is answered 500   *)
(* {error: "Translation failed"}.                                          *)
C5_NotAStringIs500 ==
    (/\ pc = "done"
     /\ \/ req.body \in {"malformed", "null"}
        \/ HasTargetLang /\ Truthy(req.image) /\ req.image.kind # "string"
        \/ outcome.kind = "throw") =>
        responses = <<[status |-> 500, body |-> [error |-> "Translation failed"]]>>

(* C5, amended: whenever something throws inside the handler (the body is  *)
(* not JSON, the body is null and does not destructure, a truthy image has *)
(* no includes method or is an array that includes the marker and has no   *)
(* split method, the model call rejects in either mode), the answer is 500 *)
(* {error: "Translation failed"} and nothing else.  An image that is an    *)
(* array without the marker throws nothing: the model call is issued.      *)
C5_ExceptionIs500 ==
    /\ (/\ pc = "done"
        /\ \/ req.body \in {"malformed", "null"}
           \/ HasTargetLang /\ Truthy(req.image) /\ ImageBranch(req.image) # "image"
           \/ outcome.kind = "throw") =>
           /\ responses = <<[status |-> 500, body |-> [error |-> "Translation failed"]]>>
           /\ Len(errorLog) = 1
    /\ (/\ pc \in {"awaiting", "settled", "done"}
        /\ HasTargetLang
        /\ req.image.kind = "array"
        /\ ~ArrayIncludes(req.image.items, Base64Marker)) =>
           /\ modelCalls = <<ImageCall(ImagePrompt(req.targetLang), req.image)>>
           /\ pc = "done" =>
                 (errorLog = <<>> <=> responses[1].status = 200)

C5_Witness ==
    /\ pc = "done"
    /\ req.targetLang = Str(Utf16("e"))
    /\ req.image = Arr(<<Base64Marker>>)
    /\ responses = <<TranslationFailed>>
    /\ errorLog = <<"TypeError">>

(* C6: the answer is 200 exactly when the request passed validation, a     *)
(* model call was made and it returned a text that is not blank; the body  *)
(* is then {text: T} with T that text without its leading and trailing     *)
(* whitespace, so T is never empty and never starts or ends in whitespace. *)
C6_SuccessExactly ==
    pc = "done" =>
        LET r == responses[1]
            good == /\ HasTargetLang
                    /\ Truthy(req.image) \/ Truthy(req.text)
                    /\ Len(modelCalls) = 1
                    /\ outcome.kind = "response"
                    /\ outcome.text.kind = "string"
                    /\ ~IsBlank(outcome.text.str)
        IN  /\ Len(responses) = 1
            /\ (r.status = 200) <=> good
            /\ r.status = 200 =>
                  /\ DOMAIN r.body = {"text"}
                  /\ r.body.text # <<>>
                  /\ ~IsWhiteSpaceAt(r.body.text, 1)
                  /\ ~IsWhiteSpaceAt(r.body.text, Len(r.body.text))
                  /\ \E i \in 0..Len(outcome.text.str) :
                        /\ SubSeq(outcome.text.str, i + 1, i + Len(r.body.text)) = r.body.text
                        /\ IsBlank(SubSeq(outcome.text.str, 1, i))
                        /\ IsBlank(SubSeq(outcome.text.str, i + Len(r.body.text) + 1,
                                          Len(outcome.text.str)))

C6_Witness ==
    /\ pc = "done"
    /\ mode = "text"
    /\ outcome = Resolved(Str(Utf16(" H")))
    /\ responses = <<[status |-> 200, body |-> [text |-> Utf16("H")]]>>

(* C7, as stated: every invocation makes exactly one model call.           *)
C7_ExactlyOneCallAlways == pc = "done" => Len(modelCalls) = 1

(* C7, amended: an invocation makes at most one model call: exactly one    *)
(* when targetLang is present and the image branch is taken and does not   *)
(* throw or, without an image, the text is present; none when the request  *)
(* is rejected or throws before the call.  An empty result or a thrown     *)
(* error is not followed by a second call.                                 *)
C7_AtMostOneCall ==
    LET reachesCall ==
            /\ HasTargetLang
            /\ IF Truthy(req.image)
               THEN ImageBranch(req.image) = "image"
               ELSE Truthy(req.text)
    IN  /\ Len(modelCalls) <= 1
        /\ pc \in {"awaiting", "settled", "done"} =>
              (Len(modelCalls) = 1 <=> reachesCall)
        /\ pc \in {"idle", "received"} => modelCalls = <<>>

C7_Witness ==
    /\ pc = "done"
    /\ outcome = Rejected
    /\ Len(modelCalls) = 1
    /\ responses = <<TranslationFailed>>

(* C8: no fault escapes the handler.  Given that a pending model call      *)
(* ends, every invocation ends with exactly one response, of status 200,   *)
(* 400 or 500; and while the call is pending the handler does nothing but  *)
(* wait for it: it neither answers nor gives the call up.                  *)
C8_AlwaysResponds ==
    /\ (pc = "received") ~>
          (pc = "done" /\ Len(responses) = 1 /\ responses[1].status \in {200, 400, 500})
    /\ [](/\ pc \in {"idle", "received", "awaiting", "settled", "done"}
          /\ Len(responses) <= 1
          /\ pc \in {"received", "awaiting", "settled"} => responses = <<>>)
    /\ [][pc = "awaiting" =>
             /\ pc' = "settled"
             /\ outcome'.kind \in {"response", "throw"}
             /\ UNCHANGED <<req, mode, modelCalls, responses, errorLog>>]_vars

C8_Witness ==
    /\ pc = "done"
    /\ outcome = Rejected
    /\ mode = "text"
    /\ errorLog = <<"ProviderError">>
    /\ Len(responses) = 1
    /\ responses[1].status = 500

(* C9, as stated: in image mode the data sent to the model is the image    *)
(* after the first "base64," marker, the whole remainder of the string,    *)
(* and the image itself when it holds no marker.                           *)
C9_RemainderAfterMarker ==
    (mode = "image" /\ req.image.kind = "string" /\ Len(modelCalls) >= 1) =>
        LET image == req.image.str
            data == modelCalls[1].data.str
            last == Len(image) - Len(Base64Marker) + 1
        IN  IF \E i \in 1..last : OccursAt(image, Base64Marker, i)
            THEN \E i \in 1..last :
                    /\ OccursAt(image, Base64Marker, i)
                    /\ \A j \in 1..(i - 1) : ~OccursAt(image, Base64Marker, j)
                    /\ data = SubSeq(image, i + Len(Base64Marker), Len(image))
            ELSE data = image

(* C10, as stated: the text prompt holds targetLang as sent and ends with  *)
(* the source text as sent; the image prompt ends with targetLang as sent. *)
C10_VerbatimToTheEnd ==
    (pc \in {"awaiting", "settled", "done"} /\ Len(modelCalls) >= 1) =>
        LET prompt == modelCalls[1].text
            lang == TemplateStr(req.targetLang)
        IN  /\ mode = "text" =>
                 /\ StartsWith(prompt, SubSeq(TextTemplateHead, 2, Len(TextTemplateHead))
                                       \o lang \o Utf16("\n\nText:"))
                 /\ EndsWith(prompt, TemplateStr(req.text))
            /\ mode = "image" => EndsWith(prompt, lang)

(* C10, amended: the client's strings enter the template unchanged, and    *)
(* the whole is then trimmed.  The text prompt is the template, less its   *)
(* leading line break, filled with targetLang and the source text as sent  *)
(* and cut before the white space that ends it; the image prompt likewise  *)
(* with targetLang.  White space that ends the source text (text mode) or  *)
(* targetLang (image mode) is therefore not part of the prompt.            *)
C10_VerbatimThenTrimmed ==
    (pc \in {"awaiting", "settled", "done"} /\ Len(modelCalls) >= 1) =>
        LET prompt == modelCalls[1].text
            lang == TemplateStr(req.targetLang)
            filled ==
                IF mode = "text"
                THEN SubSeq(TextTemplateHead, 2, Len(TextTemplateHead)) \o lang
                     \o Utf16("\n\nText:\n") \o TemplateStr(req.text)
                ELSE SubSeq(ImageTemplateHead, 2, Len(ImageTemplateHead)) \o lang
        IN  /\ StartsWith(filled, prompt)
            /\ IsBlank(SubSeq(filled, Len(prompt) + 1, Len(filled)))
            /\ ~IsWhiteSpaceAt(prompt, Len(prompt))
            /\ mode = "text" =>
                  StartsWith(prompt, SubSeq(TextTemplateHead, 2, Len(TextTemplateHead))
                                     \o lang \o Utf16("\n\nText:"))

C10_Witness ==
    /\ pc = "awaiting"
    /\ mode = "text"
    /\ req.targetLang = Str(Utf16(" e"))
    /\ req.text = Str(Utf16("e "))
    /\ EndsWith(modelCalls[1].text, Utf16("Target language:\n e\n\nText:\ne"))

(* C14: the presence checks test truthiness only.  With targetLang         *)
(* present and no image, a text that is not empty but holds white space    *)
(* only is not answered 400 "Missing text": it passes validation, one      *)
(* text-mode model call is issued, and the prompt of that call, the        *)
(* template having been trimmed, ends at "Text:" with no source text.      *)
C14_BlankTextReachesModel ==
    (/\ HasTargetLang
     /\ ~Truthy(req.image)
     /\ req.text.kind = "string"
     /\ req.text.str # <<>>
     /\ IsBlank(req.text.str)
     /\ pc \in {"awaiting", "settled", "done"}) =>
        /\ mode = "text"
        /\ Len(modelCalls) = 1
        /\ modelCalls[1].contents = "string"
        /\ modelCalls[1].text =
              SubSeq(TextTemplateHead, 2, Len(TextTemplateHead))
              \o TemplateStr(req.targetLang) \o Utf16("\n\nText:")
        /\ pc = "done" => /\ Len(responses) = 1
                          /\ responses[1] # MissingText
                          /\ responses[1].status # 400

C14_Witness ==
    /\ pc = "awaiting"
    /\ req.targetLang = Str(Utf16("e"))
    /\ req.image = Undefined
    /\ req.text = Str(Utf16(" "))
    /\ mode = "text"
    /\ EndsWith(modelCalls[1].text, Utf16("Target language:\ne\n\nText:"))

(* C11: invocations in flight together do not interfere.  Whatever the     *)
(* interleaving, the model call an invocation issues is the one its own    *)
(* request determines, its response is the one its own request and the     *)
(* outcome of its own model call determine, and two text-mode invocations  *)
(* with the same targetLang and text send the same prompt.                 *)
C11_OwnCall(r) ==
    IF HasRoute(r, "image")
    THEN <<ImageCall(ImagePrompt(r.targetLang), ImageData(r.image))>>
    ELSE IF HasRoute(r, "text")
         THEN <<TextCall(TextPrompt(r.targetLang, r.text))>>
         ELSE <<>>

C11_OwnResponse(r, o) ==
    IF r.body = "object" /\ ~Truthy(r.targetLang) THEN MissingTargetLang
    ELSE IF r.body = "object" /\ ~Truthy(r.image) /\ ~Truthy(r.text) THEN MissingText
    ELSE IF /\ r.body = "object"
            /\ o.kind = "response"
            /\ o.text.kind = "string"
            /\ ~IsBlank(o.text.str)
         THEN Translated(Trim(o.text.str))
         ELSE TranslationFailed

C11_NoInterference ==
    /\ \A i \in Invocations :
          LET f == flights[i]
          IN  /\ f.pc \in {"awaiting", "settled", "done"} => f.modelCalls = C11_OwnCall(f.req)
              /\ f.pc = "done" => f.responses = <<C11_OwnResponse(f.req, f.outcome)>>
    /\ \A i, j \in Invocations :
          LET f == flights[i]
              g == flights[j]
          IN  /\ (/\ f.mode = "text"
                  /\ g.mode = "text"
                  /\ f.req.targetLang = g.req.targetLang
                  /\ f.req.text = g.req.text) =>
                     f.modelCalls[1].text = g.modelCalls[1].text
              /\ (/\ f.pc = "done"
                  /\ g.pc = "done"
                  /\ f.req = g.req
                  /\ f.outcome = g.outcome) =>
                     f.responses = g.responses

C11_Witness ==
    /\ flights[1].pc = "done"
    /\ flights[1].mode = "text"
    /\ flights[1].responses = <<[status |-> 200, body |-> [text |-> Utf16("H")]]>>
    /\ flights[2].pc = "settled"
    /\ flights[2].mode = "image"
    /\ flights[2].outcome = Rejected

\* the events one invocation of handleTranslate may have gone through
SuccessTrace == <<"fetch", "text", "addDoc", "written", "cleared">>
FailureTraces == {<<"fetch", "alert">>, <<"fetch", "text", "addDoc", "alert">>}
IsPrefix(p, t) == Len(p) <= Len(t) /\ SubSeq(t, 1, Len(p)) = p

\* a history record has the five fields, and a non-empty translated text
WellFormedRecord(d) ==
    /\ DOMAIN d = {"userId", "sourceText", "translatedText", "targetLang", "createdAt"}
    /\ Truthy(d.translatedText)
    /\ d.translatedText.str \in ServerTexts
    /\ d.sourceText # <<>>

\* C12, for the invocations that are running: the steps come in the order
\* of the success trace, and a record is written only after a non-empty text
C12_Running ==
    \A k \in 1..Len(inFlight) :
       LET f == inFlight[k]
       IN  /\ IsPrefix(f.trace, SuccessTrace) /\ Len(f.trace) < Len(SuccessTrace)
           /\ Len(f.written) <= 1
           /\ f.written # <<>> <=> f.trace = SubSeq(SuccessTrace, 1, 4)
           /\ \A n \in 1..Len(f.written) :
                 /\ WellFormedRecord(f.written[n])
                 /\ f.written[n] = HistoryRecord(f)
                 /\ f.fetched.kind = "response"
                 /\ f.parsed = "yes"
                 /\ DataText(f.fetched.data) = f.translatedText

\* C12, for the invocation that returned last: it returned at once, or it
\* failed and skipped every later step, or it went through all of them
C12_Returned ==
    /\ completed.trace \in {<<>>, <<"return">>, SuccessTrace} \cup FailureTraces
    /\ completed.written # <<>> <=> completed.trace = SuccessTrace
    /\ \A n \in 1..Len(completed.written) : WellFormedRecord(completed.written[n])

\* C12, for the input field: a step of handleTranslate changes it only by
\* clearing it at the end of the success trace
C12_ClearedOnSuccess ==
    (inFlight' # inFlight /\ inputText' # inputText)
        => /\ inputText' = <<>>
           /\ completed'.trace = SuccessTrace
           /\ completed'.written # <<>>
           /\ Len(inFlight') < Len(inFlight)

\* C12: handleTranslate reads the response, then, if it holds a non-empty
\* text, writes a history record of userId, sourceText, translatedText,
\* targetLang and createdAt, then clears the input; a failed fetch, a
\* response without text or a failed write skips the later steps, so no
\* record is written without a translation and the input is cleared only
\* after the write succeeded
C12_TranslateThenStoreThenClear ==
    /\ [](C12_Running /\ C12_Returned)
    /\ [][C12_ClearedOnSuccess]_vars

C12_Witness ==
    /\ completed.trace = SuccessTrace
    /\ Len(completed.written) = 1
    /\ completed.written[1].sourceText = Utf16("e")
    /\ completed.written[1].translatedText = Str(Utf16("H"))
    /\ inputText = <<>>
    /\ ~loading

\* the state of the screen that handleTranslate reads and writes
ScreenState == <<inputText, selectedLang, userId, loading, inFlight>>

\* C13, in every state: at most one invocation is past its guard, and
\* loading is true exactly while one is
C13_OneAtATime ==
    /\ Len(inFlight) <= 1
    /\ loading <=> inFlight # <<>>

\* C13, in every step: loading is set when the request is issued and reset
\* when the invocation returns; while loading is true, the input is blank
\* or there is no userId, no request is issued, and an invocation that
\* returns at once leaves the state of the screen as it was
C13_Steps ==
    /\ Len(inFlight') > Len(inFlight)
          => /\ ~loading /\ loading'
             /\ Trim(inputText) # <<>> /\ Truthy(userId)
             /\ inFlight'[Len(inFlight')].pc = "fetching"
    /\ Len(inFlight') < Len(inFlight) => loading /\ ~loading'
    /\ (loading \/ Trim(inputText) = <<>> \/ ~Truthy(userId))
          => Len(inFlight') <= Len(inFlight)
    /\ (completed' # completed /\ completed'.trace = <<"return">>)
          => /\ loading \/ Trim(inputText) = <<>> \/ ~Truthy(userId)
             /\ completed'.sawLoading = loading
             /\ UNCHANGED ScreenState

\* C13: never more than one translation request is in flight: loading is
\* set before the fetch, an invocation that finds loading true, a blank
\* input or no userId returns without a fetch and without a change of
\* state, and loading is false again after every way out of the handler
C13_SingleRequestInFlight ==
    /\ []C13_OneAtATime
    /\ [][C13_Steps]_vars

C13_Witness ==
    /\ loading
    /\ Len(inFlight) = 1
    /\ inFlight[1].pc = "fetching"
    /\ Trim(inputText) # <<>>
    /\ Truthy(userId)
    /\ completed.trace = <<"return">>
    /\ completed.sawLoading

====
